---- MODULE Spec2Model ----
(***************************************************************************)
(* A model of DependencyGraph (src/dependency_graph.py): the node set, the *)
(* forward and reverse adjacency maps (both defaultdict(set)), the three   *)
(* mutations and the queries built on them.                                *)
(*                                                                         *)
(* Python iterates a set of strings in the order of their hashes, which   *)
(* it draws anew for every process; the code never sorts.  The model keeps *)
(* that order in the variable order, a permutation of the identifiers      *)
(* chosen arbitrarily at construction: every `for x in <set>` of the code  *)
(* visits the elements of the set in the order they have in it.            *)
(***************************************************************************)
EXTENDS Integers, Sequences, FiniteSets, TLC

\* The node identifiers of the model (opaque strings in the code).
Ids == {"a", "b", "c"}

\* add_edge is disabled once the graph holds this many edges.
MaxEdges == 3

VARIABLES
    nodes,          \* self.nodes
    edges,          \* self.edges: defaultdict(set), node -> its dependencies
    reverse_edges,  \* self.reverse_edges: defaultdict(set), node -> its dependents
    order,          \* iteration order of the sets: a permutation of Ids
    op,             \* the last operation called
    arg,            \* the identifier a query was called with, <<>> otherwise
    ret,            \* what the call returned or raised
    held,           \* the set object a caller kept from get_dependencies/get_dependents
    readers         \* the queries running concurrently, one record per thread

vars == <<nodes, edges, reverse_edges, order, op, arg, ret, held, readers>>

graph == <<nodes, edges, reverse_edges>>

----------------------------------------------------------------------------
(* Dictionaries and set iteration *)

\* The permutations of Ids, as sequences.
Perms == {s \in [1..Cardinality(Ids) -> Ids] : \A i, j \in DOMAIN s : s[i] = s[j] => i = j}

\* The value read by m[k] on a defaultdict(set), and by m.get(k, set()).
Get(m, k) == IF k \in DOMAIN m THEN m[k] ELSE {}

\* The effect of reading m[k] for every k of S on a defaultdict(set):
\* a missing key is inserted with an empty set.
TouchAll(m, S) == [k \in DOMAIN m \cup S |-> Get(m, k)]

\* del m[k]
Del(m, k) == [j \in DOMAIN m \ {k} |-> m[j]]

\* AddTo with ^= in place of add: v leaves the set when it is in it.
AddToToggle(m, k, v) ==
    [j \in DOMAIN m \cup {k} |->
        IF j = k THEN (IF v \in Get(m, k) THEN Get(m, k) \ {v} ELSE Get(m, k) \cup {v}) ELSE m[j]]

\* m[k].add(v) on a defaultdict(set)
AddTo(m, k, v) == [j \in DOMAIN m \cup {k} |-> IF j = k THEN Get(m, k) \cup {v} ELSE m[j]]

\* m[k].discard(v) for every k of S on a defaultdict(set)
DiscardFrom(m, S, v) == [j \in DOMAIN m \cup S |-> IF j \in S THEN Get(m, j) \ {v} ELSE m[j]]

\* The elements of S in the order a `for` loop visits them.
Iter(S) == SelectSeq(order, LAMBDA x : x \in S)

\* The edges stored in the forward map, as pairs (dependent, dependency).
EdgeSet == {p \in Ids \X Ids : p[2] \in Get(edges, p[1])}

Ok(v) == [kind |-> "value", val |-> v]
NoRet == [kind |-> "none", val |-> <<>>]

\* A set object: id tells which object it is, <<"edges", k>> or
\* <<"reverse_edges", k>> for the set stored under k in a map, <<"fresh">>
\* for a set created for the caller; val is what a fresh set holds.
NoObject == [id |-> <<>>, val |-> {}]

----------------------------------------------------------------------------
(* Mutations *)

Init ==
    /\ nodes = {}
    /\ edges = <<>>
    /\ reverse_edges = <<>>
    /\ order \in Perms
    /\ op = "init"
    /\ arg = <<>>
    /\ ret = NoRet
    /\ held = NoObject
    /\ readers = <<>>

\* add_node(node)
AddNode(node) ==
    /\ nodes' = nodes \cup {node}
    /\ UNCHANGED <<edges, reverse_edges, order>>
    /\ op' = "add_node"
    /\ arg' = <<>>
    /\ ret' = NoRet
    /\ UNCHANGED <<held, readers>>

\* add_edge(from_node, to_node)
AddEdge(from_node, to_node) ==
    /\ <<from_node, to_node>> \in EdgeSet \/ Cardinality(EdgeSet) < MaxEdges
    /\ nodes' = nodes \cup {from_node, to_node}
    /\ edges' = AddTo(edges, from_node, to_node)
    /\ reverse_edges' = AddTo(reverse_edges, to_node, from_node)
    /\ order' = order
    /\ op' = "add_edge"
    /\ arg' = <<>>
    /\ ret' = NoRet
    /\ UNCHANGED <<held, readers>>

\* RemoveEdgesOf without the loop over the outgoing edges.
RemoveEdgesOfNoOutgoing(node) ==
    LET e0 == TouchAll(edges, {node})
        e1 == Del(e0, node)
        r2 == TouchAll(reverse_edges, {node})
        e2 == DiscardFrom(e1, r2[node], node)
        r3 == Del(r2, node)
    IN  [e |-> e2, r |-> r3]

\* RemoveEdgesOf without the loop over the incoming edges.
RemoveEdgesOfNoIncoming(node) ==
    LET e0 == TouchAll(edges, {node})
        r1 == DiscardFrom(reverse_edges, e0[node], node)
        e1 == Del(e0, node)
        r2 == TouchAll(r1, {node})
        r3 == Del(r2, node)
    IN  [e |-> e1, r |-> r3]

\* The maps after remove_node(node) on a node of the graph.
RemoveEdgesOf(node) ==
    LET e0 == TouchAll(edges, {node})
        r1 == DiscardFrom(reverse_edges, e0[node], node)
        e1 == Del(e0, node)
        r2 == TouchAll(r1, {node})
        e2 == DiscardFrom(e1, r2[node], node)
        r3 == Del(r2, node)
    IN  [e |-> e2, r |-> r3]

\* remove_node(node)
RemoveNode(node) ==
    /\ IF node \notin nodes
       THEN UNCHANGED <<nodes, edges, reverse_edges>>
       ELSE /\ nodes' = nodes \ {node}
            /\ edges' = RemoveEdgesOf(node).e
            /\ reverse_edges' = RemoveEdgesOf(node).r
    /\ order' = order
    /\ op' = "remove_node"
    /\ arg' = <<>>
    /\ ret' = NoRet
    /\ UNCHANGED <<held, readers>>

----------------------------------------------------------------------------
(* Direct queries *)

\* get_dependencies(node)
GetDependencies(node) ==
    /\ op' = "get_dependencies"
    /\ arg' = <<node>>
    /\ ret' = Ok(Get(edges, node))
    /\ UNCHANGED <<nodes, edges, reverse_edges, order>>
    /\ UNCHANGED <<held, readers>>

\* get_dependents(node)
GetDependents(node) ==
    /\ op' = "get_dependents"
    /\ arg' = <<node>>
    /\ ret' = Ok(Get(reverse_edges, node))
    /\ UNCHANGED <<nodes, edges, reverse_edges, order>>
    /\ UNCHANGED <<held, readers>>

----------------------------------------------------------------------------
(* Cycle detection.  The state of a traversal is a record: visited and      *)
(* rec_stack are the two sets of the code, found is the value the call     *)
(* returns.  Every dfs(node) reads self.edges[node], so the keys the       *)
(* traversal inserts into the forward map are the nodes it visited.        *)

RECURSIVE HasCycleDfs(_, _), HasCycleDeps(_, _)

\* HasCycleDfs without rec_stack.add(node).
HasCycleDfsNoStack(node, st) ==
    LET st1 == [st EXCEPT !.visited = @ \cup {node}]
        r == HasCycleDeps(Iter(Get(edges, node)), st1)
    IN  IF r.found THEN r ELSE [r EXCEPT !.rec_stack = @ \ {node}]

\* has_cycle.dfs(node), entered with the traversal state st
HasCycleDfs(node, st) ==
    LET st1 == [st EXCEPT !.visited = @ \cup {node}, !.rec_stack = @ \cup {node}]
        r == HasCycleDeps(Iter(Get(edges, node)), st1)
    IN  IF r.found THEN r ELSE [r EXCEPT !.rec_stack = @ \ {node}]

\* HasCycleDeps taking every visited dependency for a back edge.
HasCycleDepsAnyVisited(deps, st) ==
    IF deps = <<>> THEN st
    ELSE LET dep == Head(deps)
         IN  IF dep \notin st.visited
             THEN LET r == HasCycleDfs(dep, st)
                  IN  IF r.found THEN r ELSE HasCycleDeps(Tail(deps), r)
             ELSE [st EXCEPT !.found = TRUE]

\* the loop `for dep in self.edges[node]` of has_cycle.dfs, over the deps left
HasCycleDeps(deps, st) ==
    IF deps = <<>> THEN st
    ELSE LET dep == Head(deps)
         IN  IF dep \notin st.visited
             THEN LET r == HasCycleDfs(dep, st)
                  IN  IF r.found THEN r ELSE HasCycleDeps(Tail(deps), r)
             ELSE IF dep \in st.rec_stack
                  THEN [st EXCEPT !.found = TRUE]
                  ELSE HasCycleDeps(Tail(deps), st)

RECURSIVE HasCycleNodes(_, _)

\* the loop `for node in self.nodes` of has_cycle, over the nodes left
HasCycleNodes(ns, st) ==
    IF ns = <<>> THEN st
    ELSE IF Head(ns) \notin st.visited
         THEN LET r == HasCycleDfs(Head(ns), st)
              IN  IF r.found THEN r ELSE HasCycleNodes(Tail(ns), r)
         ELSE HasCycleNodes(Tail(ns), st)

\* has_cycle(): the final traversal state; found is the returned value
HasCycleRun == HasCycleNodes(Iter(nodes), [visited |-> {}, rec_stack |-> {}, found |-> FALSE])

HasCycleResult == HasCycleRun.found

\* has_cycle()
HasCycle ==
    /\ op' = "has_cycle"
    /\ arg' = <<>>
    /\ ret' = Ok(HasCycleResult)
    /\ edges' = TouchAll(edges, HasCycleRun.visited)
    /\ UNCHANGED <<nodes, reverse_edges, order>>
    /\ UNCHANGED <<held, readers>>

\* A list of the code is a sequence; None is the value NoCycle.
NoCycle == <<>>

\* Index taking the cycle to start where the path starts.
IndexOfRoot(path, x) == 1

\* path.index(dep)
Index(path, x) == CHOOSE i \in 1..Len(path) : path[i] = x /\ \A j \in 1..(i-1) : path[j] # x

\* CycleFrom without the closing element.
CycleFromOpen(path, dep) == SubSeq(path, Index(path, dep), Len(path))

\* path[cycle_start:] + [dep]
CycleFrom(path, dep) == SubSeq(path, Index(path, dep), Len(path)) \o <<dep>>

\* path.pop()
Pop(path) == SubSeq(path, 1, Len(path) - 1)

RECURSIVE FindCycleDfs(_, _), FindCycleDeps(_, _)

\* find_cycle.dfs(node); result is the returned value
FindCycleDfs(node, st) ==
    LET st1 == [st EXCEPT !.visited = @ \cup {node}, !.rec_stack = @ \cup {node},
                          !.path = Append(@, node)]
        r == FindCycleDeps(Iter(Get(edges, node)), st1)
    IN  IF r.result # NoCycle THEN r
        ELSE [r EXCEPT !.path = Pop(@), !.rec_stack = @ \ {node}]

\* the loop `for dep in self.edges[node]` of find_cycle.dfs, over the deps left
FindCycleDeps(deps, st) ==
    IF deps = <<>> THEN st
    ELSE LET dep == Head(deps)
         IN  IF dep \notin st.visited
             THEN LET r == FindCycleDfs(dep, st)
                  IN  IF r.result # NoCycle THEN r ELSE FindCycleDeps(Tail(deps), r)
             ELSE IF dep \in st.rec_stack
                  THEN [st EXCEPT !.result = CycleFrom(st.path, dep)]
                  ELSE FindCycleDeps(Tail(deps), st)

RECURSIVE FindCycleNodes(_, _)

\* FindCycleNodes searching from the first node only.
FindCycleNodesFirstOnly(ns, st) ==
    IF ns = <<>> THEN st ELSE FindCycleDfs(Head(ns), st)

\* the loop `for node in self.nodes` of find_cycle, over the nodes left
FindCycleNodes(ns, st) ==
    IF ns = <<>> THEN st
    ELSE IF Head(ns) \notin st.visited
         THEN LET r == FindCycleDfs(Head(ns), st)
              IN  IF r.result # NoCycle THEN r ELSE FindCycleNodes(Tail(ns), r)
         ELSE FindCycleNodes(Tail(ns), st)

\* find_cycle(): the final traversal state; result is the returned value
FindCycleRun ==
    FindCycleNodes(Iter(nodes),
                   [visited |-> {}, rec_stack |-> {}, path |-> <<>>, result |-> NoCycle])

FindCycleResult == FindCycleRun.result

\* find_cycle()
FindCycle ==
    /\ op' = "find_cycle"
    /\ arg' = <<>>
    /\ ret' = Ok(FindCycleResult)
    /\ edges' = TouchAll(edges, FindCycleRun.visited)
    /\ UNCHANGED <<nodes, reverse_edges, order>>
    /\ UNCHANGED <<held, readers>>

----------------------------------------------------------------------------
(* Ordering and levelling *)

\* repr() of a list of strings, as the sequence of its tokens: the text the
\* f-string of the error message puts after "Cycle: ".
RECURSIVE ReprItems(_)
ReprItems(l) ==
    IF l = <<>> THEN <<>>
    ELSE <<"'", Head(l), "'">> \o (IF Len(l) > 1 THEN <<", ">> ELSE <<>>) \o ReprItems(Tail(l))

Repr(l) == IF l = NoCycle THEN <<"None">> ELSE <<"[">> \o ReprItems(l) \o <<"]">>

\* raise ValueError(f"{prefix}{self.find_cycle()}")
ValueError(prefix) == [kind |-> "ValueError", val |-> [prefix |-> prefix, text |-> Repr(FindCycleResult)]]

\* InDegree counting the dependents of a node instead of its dependencies.
InDegreeOfDependents == [n \in nodes |-> Cardinality(Get(reverse_edges, n))]

\* {node: len(self.edges[node]) for node in self.nodes}; the dictionary keeps
\* the order of the loop that filled it, Iter(nodes).
InDegree == [n \in nodes |-> Cardinality(Get(edges, n))]

\* [node for node, degree in in_degree.items() if degree == 0]
Ready(in_degree) == SelectSeq(Iter(nodes), LAMBDA n : in_degree[n] = 0)

RECURSIVE SortDependentsFront(_, _)

\* SortDependents with appendleft in place of append.
SortDependentsFront(deps, st) ==
    IF deps = <<>> THEN st
    ELSE LET d == Head(deps)
             deg == st.in_degree[d] - 1
         IN  SortDependentsFront(Tail(deps),
                 [in_degree |-> [st.in_degree EXCEPT ![d] = deg],
                  queue |-> IF deg = 0 THEN <<d>> \o st.queue ELSE st.queue])

RECURSIVE SortDependents(_, _)

\* the loop `for dependent in self.reverse_edges[node]` of topological_sort
SortDependents(deps, st) ==
    IF deps = <<>> THEN st
    ELSE LET d == Head(deps)
             deg == st.in_degree[d] - 1
         IN  SortDependents(Tail(deps),
                 [in_degree |-> [st.in_degree EXCEPT ![d] = deg],
                  queue |-> IF deg = 0 THEN Append(st.queue, d) ELSE st.queue])

RECURSIVE SortLoop(_, _, _)

\* the loop `while queue` of topological_sort
SortLoop(in_degree, queue, result) ==
    IF queue = <<>> THEN result
    ELSE LET node == Head(queue)
             st == SortDependents(Iter(Get(reverse_edges, node)),
                                  [in_degree |-> in_degree, queue |-> Tail(queue)])
         IN  SortLoop(st.in_degree, st.queue, Append(result, node))

\* the list topological_sort() returns when has_cycle() is false
SortResult == SortLoop(InDegree, Ready(InDegree), <<>>)

\* The elements of a sequence, as a set.
Range(s) == {s[i] : i \in DOMAIN s}

\* topological_sort()
TopologicalSort ==
    /\ op' = "topological_sort"
    /\ arg' = <<>>
    /\ IF HasCycleResult
       THEN /\ ret' = ValueError("Cannot sort cyclic graph. Cycle: ")
            /\ edges' = TouchAll(edges, HasCycleRun.visited \cup FindCycleRun.visited)
            /\ reverse_edges' = reverse_edges
       ELSE /\ ret' = Ok(SortResult)
            /\ edges' = TouchAll(edges, HasCycleRun.visited \cup nodes)
            /\ reverse_edges' = TouchAll(reverse_edges, Range(SortResult))
    /\ UNCHANGED <<nodes, order>>
    /\ UNCHANGED <<held, readers>>

RECURSIVE LevelDependents(_, _)

\* the loop `for dependent in self.reverse_edges[node]` of get_build_levels
LevelDependents(deps, in_degree) ==
    IF deps = <<>> THEN in_degree
    ELSE LET d == Head(deps)
         IN  LevelDependents(Tail(deps),
                 IF in_degree[d] > 0 THEN [in_degree EXCEPT ![d] = @ - 1] ELSE in_degree)

RECURSIVE LevelNodes(_, _)

\* the loop `for node in current_level` of get_build_levels
LevelNodes(level, in_degree) ==
    IF level = <<>> THEN in_degree
    ELSE LET node == Head(level)
         IN  LevelNodes(Tail(level),
                 LevelDependents(Iter(Get(reverse_edges, node)),
                                 [in_degree EXCEPT ![node] = -1]))

RECURSIVE LevelLoopOneNode(_, _)

\* LevelLoop putting one ready node in each level.
LevelLoopOneNode(in_degree, levels) ==
    IF \E n \in DOMAIN in_degree : in_degree[n] = 0
    THEN LET current_level == <<Head(Ready(in_degree))>>
         IN  LevelLoopOneNode(LevelNodes(current_level, in_degree), Append(levels, current_level))
    ELSE levels

RECURSIVE LevelLoop(_, _)

\* the loop `while any(degree == 0 ...)` of get_build_levels
LevelLoop(in_degree, levels) ==
    IF \E n \in DOMAIN in_degree : in_degree[n] = 0
    THEN LET current_level == Ready(in_degree)
         IN  LevelLoop(LevelNodes(current_level, in_degree), Append(levels, current_level))
    ELSE levels

\* the list get_build_levels() returns when has_cycle() is false
LevelsResult == LevelLoop(InDegree, <<>>)

\* get_build_levels()
GetBuildLevels ==
    /\ op' = "get_build_levels"
    /\ arg' = <<>>
    /\ IF HasCycleResult
       THEN /\ ret' = ValueError("Cannot level cyclic graph. Cycle: ")
            /\ edges' = TouchAll(edges, HasCycleRun.visited \cup FindCycleRun.visited)
            /\ reverse_edges' = reverse_edges
       ELSE /\ ret' = Ok(LevelsResult)
            /\ edges' = TouchAll(edges, HasCycleRun.visited \cup nodes)
            /\ reverse_edges' =
                   TouchAll(reverse_edges, UNION {Range(LevelsResult[i]) : i \in DOMAIN LevelsResult})
    /\ UNCHANGED <<nodes, order>>
    /\ UNCHANGED <<held, readers>>

----------------------------------------------------------------------------
(* Closures *)

RECURSIVE ClosureDfs(_, _), ClosureDeps(_, _)

\* transitive_closure.dfs(current), entered with the set visited
ClosureDfs(current, visited) == ClosureDeps(Iter(Get(edges, current)), visited)

\* ClosureDeps without the recursive call.
ClosureDepsDirect(deps, visited) == visited \cup Range(deps)

\* the loop `for dep in self.edges[current]` of transitive_closure.dfs
ClosureDeps(deps, visited) ==
    IF deps = <<>> THEN visited
    ELSE LET dep == Head(deps)
         IN  IF dep \notin visited
             THEN ClosureDeps(Tail(deps), ClosureDfs(dep, visited \cup {dep}))
             ELSE ClosureDeps(Tail(deps), visited)

\* the set transitive_closure(node) returns
ClosureResult(node) == ClosureDfs(node, {})

\* transitive_closure(node); dfs reads self.edges[current] for node and for
\* every node it adds to visited
TransitiveClosure(node) ==
    /\ op' = "transitive_closure"
    /\ arg' = <<node>>
    /\ ret' = Ok(ClosureResult(node))
    /\ edges' = TouchAll(edges, {node} \cup ClosureResult(node))
    /\ UNCHANGED <<nodes, reverse_edges, order>>
    /\ UNCHANGED <<held, readers>>

\* Transitive counting every dependency as reachable from itself.
TransitiveWithSelf(node) == UNION {ClosureResult(dep) \cup {dep} : dep \in Get(edges, node)}

\* the set `transitive` of minimal_dependencies(node)
Transitive(node) == UNION {ClosureResult(dep) : dep \in Get(edges, node)}

\* the set minimal_dependencies(node) returns
MinimalResult(node) == Get(edges, node) \ Transitive(node)

\* minimal_dependencies(node)
MinimalDependencies(node) ==
    /\ op' = "minimal_dependencies"
    /\ arg' = <<node>>
    /\ ret' = Ok(MinimalResult(node))
    /\ edges' = TouchAll(edges, {node} \cup Get(edges, node) \cup Transitive(node))
    /\ UNCHANGED <<nodes, reverse_edges, order>>
    /\ UNCHANGED <<held, readers>>

Next ==
    \/ \E n \in Ids : AddNode(n)
    \/ \E f, t \in Ids : AddEdge(f, t)
    \/ \E n \in Ids : RemoveNode(n)
    \/ \E n \in Ids : GetDependencies(n)
    \/ \E n \in Ids : GetDependents(n)
    \/ HasCycle
    \/ FindCycle
    \/ TopologicalSort
    \/ GetBuildLevels
    \/ \E n \in Ids : TransitiveClosure(n)
    \/ \E n \in Ids : MinimalDependencies(n)

Spec == Init /\ [][Next]_vars

----------------------------------------------------------------------------
(* Two graphs with the same contents *)

\* Another DependencyGraph built to hold the same nodes and the same edges:
\* its sets hold the same elements and iterate in an order of their own.
OtherGraph ==
    /\ order' \in Perms
    /\ op' = "other_graph"
    /\ arg' = <<>>
    /\ ret' = NoRet
    /\ UNCHANGED <<held, readers>>
    /\ UNCHANGED <<nodes, edges, reverse_edges>>
    /\ UNCHANGED <<held, readers>>

NextOther == Next \/ OtherGraph

SpecOther == Init /\ [][NextOther]_vars

----------------------------------------------------------------------------
(* The set objects get_dependencies and get_dependents hand out.  A caller  *)
(* keeps the returned object in held and may change it, while the graph is *)
(* mutated further.  None of these operations iterates a set, so one       *)
(* iteration order stands for all.                                         *)

\* m.get(k, set()): the set stored under k, or a new empty set
GetOrNew(name, m, k) ==
    IF k \in DOMAIN m THEN [id |-> <<name, k>>, val |-> m[k]]
    ELSE [id |-> <<"fresh">>, val |-> {}]

\* Copy returning the object it was given.
CopyAlias(o) == o

\* o.copy(): a new set with the elements of o
Copy(o) == [id |-> <<"fresh">>, val |-> o.val]

\* Whether the object is a set stored in one of the maps.
Stored(o) ==
    /\ Len(o.id) = 2
    /\ \/ o.id[1] = "edges" /\ o.id[2] \in DOMAIN edges
       \/ o.id[1] = "reverse_edges" /\ o.id[2] \in DOMAIN reverse_edges

\* The elements of a set object.
Contents(o) ==
    IF Stored(o)
    THEN IF o.id[1] = "edges" THEN edges[o.id[2]] ELSE reverse_edges[o.id[2]]
    ELSE o.val

\* s = g.get_dependencies(node), s kept by the caller
HoldDependencies(node) ==
    /\ held' = Copy(GetOrNew("edges", edges, node))
    /\ op' = "get_dependencies"
    /\ arg' = <<node>>
    /\ ret' = Ok(held'.val)
    /\ UNCHANGED <<nodes, edges, reverse_edges, order, readers>>

\* s = g.get_dependents(node), s kept by the caller
HoldDependents(node) ==
    /\ held' = Copy(GetOrNew("reverse_edges", reverse_edges, node))
    /\ op' = "get_dependents"
    /\ arg' = <<node>>
    /\ ret' = Ok(held'.val)
    /\ UNCHANGED <<nodes, edges, reverse_edges, order, readers>>

\* The state after the caller replaced the elements of the held set by S:
\* a set stored in a map changes there, a set of the caller's own in held.
CallerWrites(S) ==
    IF Stored(held)
    THEN /\ held' = held
         /\ IF held.id[1] = "edges"
            THEN /\ edges' = [edges EXCEPT ![held.id[2]] = S]
                 /\ reverse_edges' = reverse_edges
            ELSE /\ reverse_edges' = [reverse_edges EXCEPT ![held.id[2]] = S]
                 /\ edges' = edges
    ELSE /\ held' = [held EXCEPT !.val = S]
         /\ UNCHANGED <<edges, reverse_edges>>

\* s.add(x) by the caller
CallerAdd(x) ==
    /\ held # NoObject
    /\ CallerWrites(Contents(held) \cup {x})
    /\ op' = "caller_add"
    /\ arg' = <<>>
    /\ ret' = NoRet
    /\ UNCHANGED <<nodes, order, readers>>

\* s.discard(x) by the caller
CallerDiscard(x) ==
    /\ held # NoObject
    /\ CallerWrites(Contents(held) \ {x})
    /\ op' = "caller_discard"
    /\ arg' = <<>>
    /\ ret' = NoRet
    /\ UNCHANGED <<nodes, order, readers>>

InitCopy == Init /\ order = <<"a", "b", "c">>

NextCopy ==
    \/ \E n \in Ids : AddNode(n)
    \/ \E f, t \in Ids : AddEdge(f, t)
    \/ \E n \in Ids : RemoveNode(n)
    \/ \E n \in Ids : TransitiveClosure(n)
    \/ \E n \in Ids : HoldDependencies(n)
    \/ \E n \in Ids : HoldDependents(n)
    \/ \E x \in Ids : CallerAdd(x)
    \/ \E x \in Ids : CallerDiscard(x)

SpecCopy == InitCopy /\ [][NextCopy]_vars

----------------------------------------------------------------------------
(* Concurrent readers.  Each thread runs one query on a graph that no      *)
(* mutation touches.  The only objects of the graph a query writes are the *)
(* two defaultdicts, when it reads a missing key; a step of a thread is    *)
(* one such read, self.edges[k] or self.reverse_edges[k], followed by the  *)
(* code up to the next one.  Everything else a query uses is local to the  *)
(* call and kept in the thread's record:                                   *)
(*   pc       the loop the call is in, "idle" before and "done" after it   *)
(*   q, x     the query and its argument                                   *)
(*   visited, rec_stack, path   the locals of has_cycle and find_cycle;    *)
(*            visited is also the local of transitive_closure              *)
(*   stack    the calls of dfs in progress: the node and the elements its  *)
(*            `for dep in ...` loop has still to visit                     *)
(*   next     the node dfs is about to be called with                     *)
(*   todo     what is left of `for node in self.nodes` (has_cycle,         *)
(*            find_cycle, in_degree) or of `for node in current_level`     *)
(*   in_degree, queue, out      the locals of the two orderings; out is    *)
(*            result, or levels                                            *)
(*   found, cycle, ret          what the searches and the call return      *)
(* All graphs are taken with one iteration order: renaming the identifiers *)
(* turns any other order into it.                                          *)

Threads == {"t1", "t2"}

NoNode == ""

Idle ==
    [pc |-> "idle", q |-> "", x |-> NoNode, visited |-> {}, rec_stack |-> {}, path |-> <<>>,
     stack |-> <<>>, next |-> NoNode, todo |-> <<>>, in_degree |-> <<>>, queue |-> <<>>,
     out |-> <<>>, found |-> FALSE, cycle |-> NoCycle, ret |-> NoRet]

\* visited kept on the graph and shared by the calls in progress.
SeenShared(t, l) == l.visited \cup UNION {readers[u].visited : u \in Threads \ {t}}

\* visited = set(): the set a call of has_cycle or find_cycle tests
Seen(t, l) == l.visited

\* The frame on top of the stack, and the stack with its top replaced.
Top(l) == l.stack[Len(l.stack)]
WithTop(l, f) == [l.stack EXCEPT ![Len(l.stack)] = f]

\* The state a call of has_cycle or find_cycle starts its search in.
BeginSearch(l, phase) ==
    [l EXCEPT !.pc = phase, !.visited = {}, !.rec_stack = {}, !.path = <<>>, !.stack = <<>>,
              !.next = NoNode, !.todo = Iter(nodes)]

\* raise ValueError(f"{prefix}{self.find_cycle()}") in a thread
Raised(l) ==
    [kind |-> "ValueError",
     val |-> [prefix |-> IF l.q = "topological_sort" THEN "Cannot sort cyclic graph. Cycle: "
                         ELSE "Cannot level cyclic graph. Cycle: ",
              text |-> Repr(l.cycle)]]

RECURSIVE Advance(_, _)

\* The code of thread t from the local state l up to its next read of a map
\* (or to its return).
Advance(t, l) ==
    IF l.pc \in {"has_cycle", "find_cycle"} THEN
        IF l.next # NoNode THEN l
        ELSE IF l.stack # <<>> THEN
            IF Top(l).deps = <<>>
            THEN \* the loop of dfs is over: path.pop(), rec_stack.remove(node), return
                 Advance(t, [l EXCEPT !.stack = Pop(l.stack),
                                      !.rec_stack = @ \ {Top(l).node},
                                      !.path = IF l.pc = "find_cycle" THEN Pop(@) ELSE @])
            ELSE LET dep == Head(Top(l).deps)
                     l1 == [l EXCEPT !.stack = WithTop(l, [Top(l) EXCEPT !.deps = Tail(@)])]
                 IN  IF dep \notin Seen(t, l) THEN [l1 EXCEPT !.next = dep]
                     ELSE IF dep \in l.rec_stack
                          THEN Advance(t, [l1 EXCEPT !.found = TRUE, !.stack = <<>>, !.todo = <<>>,
                                                     !.cycle = IF l.pc = "find_cycle"
                                                               THEN CycleFrom(l.path, dep) ELSE @])
                          ELSE Advance(t, l1)
        ELSE IF l.todo # <<>> THEN
            IF Head(l.todo) \notin Seen(t, l)
            THEN [l EXCEPT !.next = Head(l.todo), !.todo = Tail(@)]
            ELSE Advance(t, [l EXCEPT !.todo = Tail(@)])
        ELSE \* the search is over
            IF l.pc = "find_cycle" THEN [l EXCEPT !.pc = "done", !.ret = Raised(l)]
            ELSE IF l.q = "has_cycle" THEN [l EXCEPT !.pc = "done", !.ret = Ok(l.found)]
            ELSE IF l.found THEN Advance(t, BeginSearch(l, "find_cycle"))
            ELSE Advance(t, [l EXCEPT !.pc = "in_degree", !.todo = Iter(nodes)])
    ELSE IF l.pc = "in_degree" THEN
        IF l.todo # <<>> THEN l
        ELSE IF l.q = "topological_sort"
             THEN Advance(t, [l EXCEPT !.pc = "sort", !.queue = Ready(l.in_degree)])
             ELSE Advance(t, [l EXCEPT !.pc = "level"])
    ELSE IF l.pc = "sort" THEN
        IF l.queue # <<>> THEN l ELSE [l EXCEPT !.pc = "done", !.ret = Ok(l.out)]
    ELSE IF l.pc = "level" THEN
        IF l.todo # <<>> THEN l
        ELSE IF \E n \in DOMAIN l.in_degree : l.in_degree[n] = 0
             THEN [l EXCEPT !.todo = Ready(l.in_degree), !.out = Append(@, Ready(l.in_degree))]
             ELSE [l EXCEPT !.pc = "done", !.ret = Ok(l.out)]
    ELSE IF l.pc = "closure" THEN
        IF l.next # NoNode THEN l
        ELSE IF l.stack = <<>> THEN [l EXCEPT !.pc = "done", !.ret = Ok(l.visited)]
        ELSE IF Top(l).deps = <<>> THEN Advance(t, [l EXCEPT !.stack = Pop(@)])
        ELSE LET dep == Head(Top(l).deps)
                 l1 == [l EXCEPT !.stack = WithTop(l, [Top(l) EXCEPT !.deps = Tail(@)])]
             IN  IF dep \notin l.visited
                 THEN [l1 EXCEPT !.visited = @ \cup {dep}, !.next = dep]
                 ELSE Advance(t, l1)
    ELSE l

\* Thread t calls has_cycle(), topological_sort() or get_build_levels().
StartQuery(t, q) ==
    /\ readers[t].pc = "idle"
    /\ readers' = [readers EXCEPT ![t] = Advance(t, BeginSearch([Idle EXCEPT !.q = q], "has_cycle"))]
    /\ UNCHANGED <<nodes, edges, reverse_edges, order, op, arg, ret, held>>

\* Thread t calls transitive_closure(x).
StartClosure(t, x) ==
    /\ readers[t].pc = "idle"
    /\ readers' = [readers EXCEPT ![t] =
           [Idle EXCEPT !.q = "transitive_closure", !.x = x, !.pc = "closure", !.next = x]]
    /\ UNCHANGED <<nodes, edges, reverse_edges, order, op, arg, ret, held>>

\* dfs(node) of has_cycle or find_cycle in thread t, to its next call
StepSearch(t) ==
    LET l == readers[t]
        node == l.next
    IN  /\ l.pc \in {"has_cycle", "find_cycle"}
        /\ edges' = TouchAll(edges, {node})
        /\ readers' = [readers EXCEPT ![t] = Advance(t,
               [l EXCEPT !.visited = @ \cup {node},
                         !.rec_stack = @ \cup {node},
                         !.path = IF l.pc = "find_cycle" THEN Append(@, node) ELSE @,
                         !.stack = Append(@, [node |-> node, deps |-> Iter(Get(edges, node))]),
                         !.next = NoNode])]
        /\ UNCHANGED <<nodes, reverse_edges, order, op, arg, ret, held>>

\* One entry of {node: len(self.edges[node]) for node in self.nodes} in thread t
StepInDegree(t) ==
    LET l == readers[t]
        node == Head(l.todo)
    IN  /\ l.pc = "in_degree"
        /\ edges' = TouchAll(edges, {node})
        /\ readers' = [readers EXCEPT ![t] = Advance(t,
               [l EXCEPT !.in_degree = [n \in DOMAIN @ \cup {node} |->
                                           IF n = node THEN Cardinality(Get(edges, node)) ELSE @[n]],
                         !.todo = Tail(@)])]
        /\ UNCHANGED <<nodes, reverse_edges, order, op, arg, ret, held>>

\* One round of `while queue` of topological_sort in thread t
StepSort(t) ==
    LET l == readers[t]
        node == Head(l.queue)
        st == SortDependents(Iter(Get(reverse_edges, node)),
                             [in_degree |-> l.in_degree, queue |-> Tail(l.queue)])
    IN  /\ l.pc = "sort"
        /\ reverse_edges' = TouchAll(reverse_edges, {node})
        /\ readers' = [readers EXCEPT ![t] = Advance(t,
               [l EXCEPT !.in_degree = st.in_degree, !.queue = st.queue, !.out = Append(@, node)])]
        /\ UNCHANGED <<nodes, edges, order, op, arg, ret, held>>

\* One round of `for node in current_level` of get_build_levels in thread t
StepLevel(t) ==
    LET l == readers[t]
        node == Head(l.todo)
    IN  /\ l.pc = "level"
        /\ reverse_edges' = TouchAll(reverse_edges, {node})
        /\ readers' = [readers EXCEPT ![t] = Advance(t,
               [l EXCEPT !.in_degree = LevelDependents(Iter(Get(reverse_edges, node)),
                                                       [@ EXCEPT ![node] = -1]),
                         !.todo = Tail(@)])]
        /\ UNCHANGED <<nodes, edges, order, op, arg, ret, held>>

\* dfs(current) of transitive_closure in thread t, to its next call
StepClosure(t) ==
    LET l == readers[t]
        node == l.next
    IN  /\ l.pc = "closure"
        /\ edges' = TouchAll(edges, {node})
        /\ readers' = [readers EXCEPT ![t] = Advance(t,
               [l EXCEPT !.stack = Append(@, [node |-> node, deps |-> Iter(Get(edges, node))]),
                         !.next = NoNode])]
        /\ UNCHANGED <<nodes, reverse_edges, order, op, arg, ret, held>>

\* The maps add_edge builds for the edge set E.
EdgesOf(E) == [k \in {p[1] : p \in E} |-> {p[2] : p \in {e \in E : e[1] = k}}]
ReverseOf(E) == [k \in {p[2] : p \in E} |-> {p[1] : p \in {e \in E : e[2] = k}}]

\* A graph built by add_node and add_edge, and no call in progress.
InitReaders ==
    /\ \E N \in SUBSET Ids : \E E \in SUBSET (N \X N) :
           /\ Cardinality(E) <= MaxEdges
           /\ nodes = N
           /\ edges = EdgesOf(E)
           /\ reverse_edges = ReverseOf(E)
    /\ order = <<"a", "b", "c">>
    /\ op = "init"
    /\ arg = <<>>
    /\ ret = NoRet
    /\ held = NoObject
    /\ readers = [t \in Threads |-> Idle]

NextReaders ==
    \/ \E t \in Threads : \E q \in {"has_cycle", "topological_sort", "get_build_levels"} :
           StartQuery(t, q)
    \/ \E t \in Threads : \E x \in Ids : StartClosure(t, x)
    \/ \E t \in Threads : StepSearch(t)
    \/ \E t \in Threads : StepInDegree(t)
    \/ \E t \in Threads : StepSort(t)
    \/ \E t \in Threads : StepLevel(t)
    \/ \E t \in Threads : StepClosure(t)

SpecReaders == InitReaders /\ [][NextReaders]_vars

----------------------------------------------------------------------------
(* Graph notions the properties are stated with.  They are defined on the  *)
(* stored edge set alone, independently of the traversals above.           *)

\* The dependencies of the nodes of S.
Succ(S) == UNION {Get(edges, u) : u \in S}

RECURSIVE Grow(_)
Grow(S) == IF Succ(S) \subseteq S THEN S ELSE Grow(S \cup Succ(S))

\* The nodes x reaches along one or more dependency edges.
Reachable(x) == Grow(Succ({x}))

\* The nodes of S together with everything they reach.
ReachableFrom(S) == S \cup UNION {Reachable(y) : y \in S}

OnCycle(x) == x \in Reachable(x)

Cyclic == \E x \in Ids : OnCycle(x)

\* The position of x in the sequence s (0 when absent).
Pos(s, x) == IF \E i \in DOMAIN s : s[i] = x THEN CHOOSE i \in DOMAIN s : s[i] = x ELSE 0

NoDuplicates(s) == \A i, j \in DOMAIN s : s[i] = s[j] => i = j

Ordering == op \in {"topological_sort", "get_build_levels"}

----------------------------------------------------------------------------
(* C1 *)

\* C1: on an acyclic graph topological_sort() returns a sequence holding
\* every node exactly once in which every dependency precedes its dependent.
C1_SortIsTopologicalOrder ==
    (op = "topological_sort" /\ ~Cyclic) =>
        /\ ret.kind = "value"
        /\ Range(ret.val) = nodes
        /\ NoDuplicates(ret.val)
        /\ \A p \in EdgeSet : Pos(ret.val, p[2]) < Pos(ret.val, p[1])

C1_Witness ==
    /\ op = "topological_sort"
    /\ ~Cyclic
    /\ ret.kind = "value"
    /\ Len(ret.val) = 3
    /\ Cardinality(EdgeSet) >= 2

----------------------------------------------------------------------------
(* C2 *)

\* The levels holding node n in the list of levels L (indices from 1).
LevelsOf(L, n) == {i \in DOMAIN L : n \in Range(L[i])}

LevelOf(L, n) == CHOOSE i \in DOMAIN L : n \in Range(L[i])

\* The greatest element of a non-empty set of integers.
Max(S) == CHOOSE m \in S : \A k \in S : k <= m

\* C2: on an acyclic graph get_build_levels() puts each node in exactly one
\* level, every dependency in a strictly earlier level, and each node at the
\* least level possible: the first level for a node without dependencies,
\* one past the greatest level of its dependencies otherwise.
C2_LevelsAreMinimal ==
    (op = "get_build_levels" /\ ~Cyclic) =>
        /\ ret.kind = "value"
        /\ \A i \in DOMAIN ret.val : NoDuplicates(ret.val[i]) /\ Range(ret.val[i]) \subseteq nodes
        /\ \A n \in nodes : Cardinality(LevelsOf(ret.val, n)) = 1
        /\ \A p \in EdgeSet : LevelOf(ret.val, p[2]) < LevelOf(ret.val, p[1])
        /\ \A n \in nodes :
               LevelOf(ret.val, n) =
                   IF Get(edges, n) = {} THEN 1
                   ELSE 1 + Max({LevelOf(ret.val, d) : d \in Get(edges, n)})

C2_Witness ==
    /\ op = "get_build_levels"
    /\ ~Cyclic
    /\ ret.kind = "value"
    /\ Len(ret.val) = 2
    /\ Len(ret.val[1]) = 2
    /\ Cardinality(EdgeSet) = 2

----------------------------------------------------------------------------
(* C3 *)

\* C3: in every state the forward and the reverse map hold the same edges:
\* v is in edges[u] exactly when u is in reverse_edges[v].
C3_Symmetry ==
    \A u, v \in Ids : v \in Get(edges, u) <=> u \in Get(reverse_edges, v)

\* After a removal that emptied an entry of the forward map and left an edge.
C3_Witness ==
    /\ op = "remove_node"
    /\ Cardinality(nodes) = 2
    /\ EdgeSet # {}
    /\ \E k \in DOMAIN edges : edges[k] = {}
    /\ \E k \in DOMAIN reverse_edges : reverse_edges[k] = {}

----------------------------------------------------------------------------
(* C4 *)

\* C4: topological_sort() and get_build_levels() raise exactly when the
\* graph holds a cycle (a self-loop included) and return a value exactly
\* when it holds none.
C4_FailsIffCyclic ==
    Ordering =>
        /\ ret.kind \in {"value", "ValueError"}
        /\ ret.kind = "ValueError" <=> Cyclic

\* get_build_levels() raised on a graph whose only edge is a self-loop.
C4_Witness ==
    /\ op = "get_build_levels"
    /\ ret.kind = "ValueError"
    /\ Cardinality(EdgeSet) = 1
    /\ \E n \in Ids : n \in Get(edges, n)

----------------------------------------------------------------------------
(* C5 *)

\* The identifiers quoted in the text of an error message, in order.
Carried(text) == SelectSeq(text, LAMBDA t : t \in Ids)

\* C5: the error topological_sort() and get_build_levels() raise carries
\* the sequence find_cycle() returns on that state, which is not empty and
\* ends with its first element.
C5_ErrorCarriesCycle ==
    (Ordering /\ ret.kind = "ValueError") =>
        /\ ret.val.text # <<"None">>
        /\ Carried(ret.val.text) = FindCycleResult
        /\ Len(FindCycleResult) > 0
        /\ FindCycleResult[1] = FindCycleResult[Len(FindCycleResult)]

\* topological_sort() raised with a cycle through two nodes.
C5_Witness ==
    /\ op = "topological_sort"
    /\ ret.kind = "ValueError"
    /\ Len(Carried(ret.val.text)) = 3

----------------------------------------------------------------------------
(* C6 *)

\* C6: has_cycle() returns true exactly when some node reaches itself along
\* one or more dependency edges.
C6_HasCycleIffCyclic ==
    op = "has_cycle" => (ret.val <=> Cyclic)

\* has_cycle() returned true on three nodes whose only edge is a self-loop.
C6_Witness ==
    /\ op = "has_cycle"
    /\ ret.val = TRUE
    /\ Cardinality(nodes) = 3
    /\ Cardinality(EdgeSet) = 1

----------------------------------------------------------------------------
(* C7 *)

\* C7: a cycle find_cycle() returns ends with its first element, and each
\* of its elements depends on the next one in the forward map.
C7_FoundCycleIsCycle ==
    (op = "find_cycle" /\ ret.val # NoCycle) =>
        /\ ret.val[1] = ret.val[Len(ret.val)]
        /\ \A i \in 1..(Len(ret.val) - 1) : ret.val[i + 1] \in Get(edges, ret.val[i])

\* find_cycle() returned a cycle through three nodes.
C7_Witness ==
    /\ op = "find_cycle"
    /\ Len(ret.val) = 4

----------------------------------------------------------------------------
(* C8 *)

\* C8: has_cycle() is true exactly when find_cycle() returns a cycle on the
\* same state.
C8_HasCycleIffFindCycle ==
    /\ op = "has_cycle" => (ret.val <=> FindCycleResult # NoCycle)
    /\ op = "find_cycle" => (ret.val # NoCycle <=> HasCycleResult)

\* find_cycle() returned a cycle not reachable from every node.
C8_Witness ==
    /\ op = "find_cycle"
    /\ ret.val # NoCycle
    /\ HasCycleResult
    /\ \E n \in nodes : ~OnCycle(n) /\ Reachable(n) = {}

----------------------------------------------------------------------------
(* C9 *)

\* C9 as stated: for every state and every x, minimal_dependencies(x) is a
\* subset of get_dependencies(x) and reaches the same nodes.
C9_Original ==
    op = "minimal_dependencies" =>
        /\ ret.val \subseteq Get(edges, arg[1])
        /\ ReachableFrom(ret.val) = ReachableFrom(Get(edges, arg[1]))

\* C9, amended: minimal_dependencies(x) is always a subset of
\* get_dependencies(x), and it reaches the same nodes whenever no direct
\* dependency of x lies on a cycle (in every acyclic graph, in particular).
C9_MinimalPreservesReach ==
    op = "minimal_dependencies" =>
        /\ ret.val \subseteq Get(edges, arg[1])
        /\ (\A d \in Get(edges, arg[1]) : ~OnCycle(d)) =>
               ReachableFrom(ret.val) = ReachableFrom(Get(edges, arg[1]))

\* minimal_dependencies(x) dropped a redundant dependency of x.
C9_Witness ==
    /\ op = "minimal_dependencies"
    /\ \A d \in Get(edges, arg[1]) : ~OnCycle(d)
    /\ ret.val # {}
    /\ ret.val # Get(edges, arg[1])

----------------------------------------------------------------------------
(* C10 *)

\* C10: transitive_closure(x) returns exactly the nodes x reaches along one
\* or more dependency edges, cyclic graph or not; x itself is among them
\* only when x lies on a cycle.
C10_ClosureIsReachable ==
    op = "transitive_closure" =>
        /\ ret.val = Reachable(arg[1])
        /\ arg[1] \in ret.val <=> OnCycle(arg[1])

\* transitive_closure(x) on a cycle through x and another node.
C10_Witness ==
    /\ op = "transitive_closure"
    /\ arg[1] \in ret.val
    /\ Cardinality(ret.val) >= 2

----------------------------------------------------------------------------
(* C11 *)

\* C11: after remove_node(x), x is not in nodes and no entry of the forward
\* or of the reverse map mentions x (so no get_dependencies or
\* get_dependents result does); remove_node of an identifier that is not in
\* nodes leaves nodes and both maps as they were.
C11_RemoveLeavesNoReference ==
    [][\A x \in Ids : RemoveNode(x) =>
           /\ x \notin nodes'
           /\ \A y \in Ids : x \notin Get(edges', y) /\ x \notin Get(reverse_edges', y)
           /\ x \notin nodes => UNCHANGED graph]_vars

\* After a removal that left a node with an emptied forward and an emptied
\* reverse entry (the removed node was on a cycle with it) beside a self-loop.
C11_Witness ==
    /\ op = "remove_node"
    /\ Cardinality(nodes) = 2
    /\ \E k \in nodes :
           /\ k \in DOMAIN edges /\ edges[k] = {}
           /\ k \in DOMAIN reverse_edges /\ reverse_edges[k] = {}
    /\ \E k \in nodes : k \in Get(edges, k)

----------------------------------------------------------------------------
(* C12 *)

\* C12: add_edge(a, b) called again on the state add_edge(a, b) produced
\* yields that same state, nodes and both maps; likewise add_node(a).
C12_AddIsIdempotent ==
    [][/\ op' = "add_edge" =>
              \A f, t \in Ids : AddEdge(f, t) =>
                  /\ <<f, t>> \in EdgeSet'
                  /\ nodes' \cup {f, t} = nodes'
                  /\ AddTo(edges', f, t) = edges'
                  /\ AddTo(reverse_edges', t, f) = reverse_edges'
       /\ op' = "add_node" =>
              \A n \in Ids : AddNode(n) => n \in nodes' /\ nodes' \cup {n} = nodes']_vars

\* After add_edge on a graph of three edges, one of them a self-loop.
C12_Witness ==
    /\ op = "add_edge"
    /\ Cardinality(EdgeSet) = 3
    /\ \E k \in nodes : k \in Get(edges, k)
    /\ Cardinality(nodes) = 3

----------------------------------------------------------------------------
(* C14 *)

\* The identifiers that are a key or a value of a map.
IdsOf(m) == DOMAIN m \cup UNION {m[k] : k \in DOMAIN m}

\* C14: in every state nodes is exactly the set of the identifiers that are
\* a key or a value of the forward or of the reverse map.
C14_NodesAreMapIds ==
    nodes = IdsOf(edges) \cup IdsOf(reverse_edges)

----------------------------------------------------------------------------
(* C15 *)

\* C15: the list topological_sort() returns is determined by the nodes and
\* the edges alone: a second call on the unchanged graph returns what the
\* first returned, and so does a call on another graph that holds the same
\* nodes and the same edges.
C15_SortDeterminedByGraph ==
    [][/\ (TopologicalSort /\ op = "topological_sort") => ret' = ret
       /\ (OtherGraph /\ ~Cyclic) => SortResult' = SortResult]_vars

----------------------------------------------------------------------------
(* C16 *)

QueryOps ==
    {"has_cycle", "find_cycle", "topological_sort", "get_build_levels",
     "transitive_closure", "minimal_dependencies"}

\* C16: a query, whether it returns or raises and whatever its argument,
\* leaves nodes, the forward map and the reverse map (keys included) as
\* they were.
C16_QueriesArePure ==
    [][op' \in QueryOps => UNCHANGED graph]_vars

----------------------------------------------------------------------------
(* C18 *)

\* C18: on an acyclic graph topological_sort() lists the nodes of
\* get_build_levels() and no others, in non-decreasing build level: it is
\* the levels one after the other, each in some order.
C18_SortFollowsLevels ==
    (op = "topological_sort" /\ ~Cyclic) =>
        /\ ret.kind = "value"
        /\ Range(ret.val) = UNION {Range(LevelsResult[i]) : i \in DOMAIN LevelsResult}
        /\ NoDuplicates(ret.val)
        /\ \A i, j \in DOMAIN ret.val :
               i <= j => LevelOf(LevelsResult, ret.val[i]) <= LevelOf(LevelsResult, ret.val[j])

\* topological_sort() on two nodes of the first level and one of the second.
C18_Witness ==
    /\ op = "topological_sort"
    /\ ~Cyclic
    /\ ret.kind = "value"
    /\ Len(ret.val) = 3
    /\ Len(LevelsResult) = 2
    /\ Len(LevelsResult[1]) = 2

----------------------------------------------------------------------------
(* C13 *)

\* C13: the set get_dependencies(id) or get_dependents(id) returns is a copy
\* of the direct edges of id: a caller changing it never changes the graph,
\* a later mutation of the graph never changes it, and for an id that is no
\* node the call returns the empty set and adds nothing to nodes or to the
\* maps, keys included.
C13_ReturnedSetIsCopy ==
    [][/\ op' \in {"caller_add", "caller_discard"} => UNCHANGED graph
       /\ op' \in {"add_node", "add_edge", "remove_node"} => Contents(held)' = Contents(held)
       /\ op' = "get_dependencies" =>
              /\ ret'.val = Get(edges, arg'[1])
              /\ Contents(held)' = ret'.val
              /\ UNCHANGED graph
              /\ arg'[1] \notin nodes => ret'.val = {}
       /\ op' = "get_dependents" =>
              /\ ret'.val = Get(reverse_edges, arg'[1])
              /\ Contents(held)' = ret'.val
              /\ UNCHANGED graph
              /\ arg'[1] \notin nodes => ret'.val = {}]_vars

\* The caller still holds the dependencies it was given, after a removal
\* that left the graph without edges.
C13_Witness ==
    /\ op = "remove_node"
    /\ held.id = <<"fresh">>
    /\ Cardinality(held.val) = 2
    /\ EdgeSet = {}
    /\ nodes # {}

----------------------------------------------------------------------------
(* C17 *)

\* What the query of the thread record l returns or raises when it runs
\* alone on the graph.
Alone(l) ==
    IF l.q = "has_cycle" THEN Ok(HasCycleResult)
    ELSE IF l.q = "topological_sort"
         THEN IF HasCycleResult THEN ValueError("Cannot sort cyclic graph. Cycle: ")
              ELSE Ok(SortResult)
    ELSE IF l.q = "get_build_levels"
         THEN IF HasCycleResult THEN ValueError("Cannot level cyclic graph. Cycle: ")
              ELSE Ok(LevelsResult)
    ELSE Ok(ClosureResult(l.x))

\* C17: with no mutation in progress, a query of has_cycle,
\* topological_sort, get_build_levels and transitive_closure that runs
\* interleaved with another one ends as it ends alone on that graph: with
\* the same value, or with the error it raises alone on a cyclic graph.
C17_ConcurrentReadsAgree ==
    \A t \in Threads :
        /\ readers[t].pc = "done" => readers[t].ret = Alone(readers[t])
        /\ readers[t].pc \in {"has_cycle", "find_cycle", "closure"} => readers[t].next \in nodes \cup {readers[t].x}
        /\ readers[t].pc \in {"in_degree", "level"} => readers[t].todo # <<>>
        /\ readers[t].pc = "sort" => readers[t].queue # <<>>

\* topological_sort() returned in one thread while has_cycle() is half way
\* through its search in the other.
C17_Witness ==
    /\ readers["t1"].pc = "done"
    /\ readers["t1"].q = "topological_sort"
    /\ readers["t1"].ret.kind = "value"
    /\ Len(readers["t1"].ret.val) = 3
    /\ readers["t2"].pc = "has_cycle"
    /\ Cardinality(readers["t2"].visited) = 1
    /\ EdgeSet # {}

====
